---- MODULE Spec2Model ----
(***************************************************************************)
(* Model of the ValetPe return-policy analyzer: the /api/analyze handler   *)
(* with its in-memory cache and the policy text resolver                   *)
(* extractPolicyText (anchor scan, candidate probing, fallback).           *)
(*                                                                         *)
(* Strings the code inspects character by character (URLs, hrefs, anchor   *)
(* text) are sequences of one-character strings.  Page text is kept        *)
(* run-length encoded, a sequence of [c, n] runs, so that a body longer    *)
(* than the 24,000 character ceiling is an ordinary value.                 *)
(***************************************************************************)
EXTENDS Integers, Sequences, FiniteSets, TLC

(***************************************************************************)
(* Bounds of the model.                                                    *)
(***************************************************************************)
NumReqs == 2
MaxTicks == 2

(***************************************************************************)
(* Program constants.                                                      *)
(***************************************************************************)
CACHE_TTL_MS == 6 * 60 * 60 * 1000
TEXT_LIMIT == 24000
MAX_CONDITIONS == 3

KW_RETURN == <<"r","e","t","u","r","n">>
KW_REFUND == <<"r","e","f","u","n","d">>
KW_EXCHANGE == <<"e","x","c","h","a","n","g","e">>
KW_CANCELLATION == <<"c","a","n","c","e","l","l","a","t","i","o","n">>
KEYWORDS == <<KW_RETURN, KW_REFUND, KW_EXCHANGE, KW_CANCELLATION>>

(***************************************************************************)
(* Character strings.                                                      *)
(***************************************************************************)
UpperAlpha ==
  <<"A","B","C","D","E","F","G","H","I","J","K","L","M",
    "N","O","P","Q","R","S","T","U","V","W","X","Y","Z">>
LowerAlpha ==
  <<"a","b","c","d","e","f","g","h","i","j","k","l","m",
    "n","o","p","q","r","s","t","u","v","w","x","y","z">>

Whitespace == {" ", "\n", "\t"}

LowerChar(c) ==
  IF \E i \in DOMAIN UpperAlpha : UpperAlpha[i] = c
  THEN LowerAlpha[CHOOSE i \in DOMAIN UpperAlpha : UpperAlpha[i] = c]
  ELSE c

\* String.prototype.toLowerCase
toLowerCase(s) == [i \in DOMAIN s |-> LowerChar(s[i])]

\* String.prototype.startsWith
startsWith(s, p) == Len(s) >= Len(p) /\ SubSeq(s, 1, Len(p)) = p

\* String.prototype.includes
includes(s, k) ==
  \E i \in 1..(Len(s) - Len(k) + 1) : SubSeq(s, i, i + Len(k) - 1) = k

RECURSIVE TrimStart(_)
TrimStart(s) ==
  IF s # <<>> /\ Head(s) \in Whitespace THEN TrimStart(Tail(s)) ELSE s

RECURSIVE TrimEnd(_)
TrimEnd(s) ==
  IF s # <<>> /\ s[Len(s)] \in Whitespace
  THEN TrimEnd(SubSeq(s, 1, Len(s) - 1))
  ELSE s

\* String.prototype.trim
trim(s) == TrimEnd(TrimStart(s))

HTTP == <<"h","t","t","p",":","/","/">>
HTTPS == <<"h","t","t","p","s",":","/","/">>
SLASH == <<"/">>

(***************************************************************************)
(* The handler's URL normalisation.                                        *)
(***************************************************************************)
NormalizeUrl_NoTrim(raw) ==
  IF ~startsWith(raw, HTTP) /\ ~startsWith(raw, HTTPS) THEN HTTPS \o raw ELSE raw

\* url = url.trim(); if (!url.startsWith("http://") && ...) url = "https://" + url
NormalizeUrl(raw) ==
  LET u == trim(raw) IN
  IF ~startsWith(u, HTTP) /\ ~startsWith(u, HTTPS) THEN HTTPS \o u ELSE u

(***************************************************************************)
(* new URL(...) of the WHATWG URL standard, on the strings the model uses: *)
(* http and https URLs written with "://", hosts without port or userinfo, *)
(* paths without dot segments or characters that get percent-encoded.      *)
(***************************************************************************)
HostEnd == {"/", "?", "#"}
ForbiddenHost == {" ", "\n", "\t", "<", ">", "%", "|", "^"}

\* length of the longest prefix of s without a character of stop
RECURSIVE PrefixLen(_, _)
PrefixLen(s, stop) ==
  IF s = <<>> \/ Head(s) \in stop THEN 0 ELSE 1 + PrefixLen(Tail(s), stop)

InvalidUrl == [ok |-> FALSE, origin |-> <<>>, hostname |-> <<>>, href |-> <<>>]

\* new URL(u) for a string u
ParseUrl(u) ==
  IF ~startsWith(u, HTTP) /\ ~startsWith(u, HTTPS) THEN InvalidUrl
  ELSE
    LET scheme == IF startsWith(u, HTTPS) THEN HTTPS ELSE HTTP
        rest == SubSeq(u, Len(scheme) + 1, Len(u))
        n == PrefixLen(rest, HostEnd)
        host == SubSeq(rest, 1, n)
        tl == SubSeq(rest, n + 1, Len(rest))
        path == IF tl = <<>> \/ Head(tl) # "/" THEN SLASH \o tl ELSE tl
    IN IF host = <<>> \/ \E i \in DOMAIN host : host[i] \in ForbiddenHost
       THEN InvalidUrl
       ELSE [ok |-> TRUE,
             origin |-> scheme \o toLowerCase(host),
             hostname |-> toLowerCase(host),
             href |-> scheme \o toLowerCase(host) \o path]

\* new URL(h, base) where base is an origin
ResolveUrl(h, base) ==
  IF startsWith(h, HTTP) \/ startsWith(h, HTTPS) THEN ParseUrl(h)
  ELSE IF h # <<>> /\ Head(h) = "/" THEN ParseUrl(base \o h)
  ELSE ParseUrl(base \o SLASH \o h)

(***************************************************************************)
(* Page text, run-length encoded: a sequence of runs [c, n], n >= 1, no    *)
(* two neighbouring runs of the same character.                            *)
(***************************************************************************)
Run(c, n) == [c |-> c, n |-> n]

\* String.prototype.length
RECURSIVE TextLen(_)
TextLen(t) == IF t = <<>> THEN 0 ELSE Head(t).n + TextLen(Tail(t))

\* string concatenation
Concat(a, b) ==
  IF a = <<>> THEN b
  ELSE IF b = <<>> THEN a
  ELSE IF a[Len(a)].c = Head(b).c
       THEN SubSeq(a, 1, Len(a) - 1)
              \o <<Run(Head(b).c, a[Len(a)].n + Head(b).n)>> \o Tail(b)
       ELSE a \o b

\* String.prototype.replace(/\s+/g, " ")
RECURSIVE CollapseWhitespace(_)
CollapseWhitespace(t) ==
  IF t = <<>> THEN <<>>
  ELSE LET rest == CollapseWhitespace(Tail(t)) IN
       IF Head(t).c \in Whitespace
       THEN IF rest # <<>> /\ Head(rest).c = " "
            THEN rest
            ELSE <<Run(" ", 1)>> \o rest
       ELSE <<Head(t)>> \o rest

RECURSIVE TextTrimStart(_)
TextTrimStart(t) ==
  IF t # <<>> /\ Head(t).c \in Whitespace THEN TextTrimStart(Tail(t)) ELSE t

RECURSIVE TextTrimEnd(_)
TextTrimEnd(t) ==
  IF t # <<>> /\ t[Len(t)].c \in Whitespace
  THEN TextTrimEnd(SubSeq(t, 1, Len(t) - 1))
  ELSE t

\* String.prototype.trim on page text
TextTrim(t) == TextTrimEnd(TextTrimStart(t))

\* String.prototype.slice(0, k)
RECURSIVE Slice(_, _)
Slice(t, k) ==
  IF t = <<>> \/ k <= 0 THEN <<>>
  ELSE IF Head(t).n >= k THEN <<Run(Head(t).c, k)>>
  ELSE <<Head(t)>> \o Slice(Tail(t), k - Head(t).n)

\* the characters of a text, one by one (anchor text only)
RECURSIVE Chars(_)
Chars(t) ==
  IF t = <<>> THEN <<>>
  ELSE [i \in 1..Head(t).n |-> Head(t).c] \o Chars(Tail(t))

\* a character string as page text
RECURSIVE Runs(_)
Runs(s) == IF s = <<>> THEN <<>> ELSE Concat(<<Run(Head(s), 1)>>, Runs(Tail(s)))

(***************************************************************************)
(* A loaded document (cheerio): the elements of the body in document       *)
(* order, each with its tag and text; anchors carry their href attribute.  *)
(***************************************************************************)
Anchor(text, href) ==
  [tag |-> "a", text |-> Runs(text), hasHref |-> TRUE, href |-> href]
AnchorNoHref(text) ==
  [tag |-> "a", text |-> Runs(text), hasHref |-> FALSE, href |-> <<>>]
Element(tag, text) ==
  [tag |-> tag, text |-> text, hasHref |-> FALSE, href |-> <<>>]

NonContentTags == {"script", "style", "noscript"}

RemoveNonContent_KeepsNoscript(doc) ==
  SelectSeq(doc, LAMBDA el : el.tag \notin {"script", "style"})

\* $("script, style, noscript").remove()
RemoveNonContent(doc) == SelectSeq(doc, LAMBDA el : el.tag \notin NonContentTags)

\* $("body").text()
RECURSIVE BodyText(_)
BodyText(doc) ==
  IF doc = <<>> THEN <<>> ELSE Concat(Head(doc).text, BodyText(Tail(doc)))

\* $("body").text().replace(/\s+/g, " ").trim() after the removal
CleanText(doc) == TextTrim(CollapseWhitespace(BodyText(RemoveNonContent(doc))))

\* $("a")
Anchors(doc) == SelectSeq(doc, LAMBDA el : el.tag = "a")

\* ($(el).text() || "").toLowerCase()
AnchorText(el) == toLowerCase(Chars(el.text))

\* ($(el).attr("href") || "").toLowerCase()
AnchorHref(el) == toLowerCase(IF el.hasHref THEN el.href ELSE <<>>)

MatchesKeyword_CaseSensitive(el) ==
  LET combined == Chars(el.text) \o <<" ">> \o (IF el.hasHref THEN el.href ELSE <<>>)
  IN \E i \in DOMAIN KEYWORDS : includes(combined, KEYWORDS[i])

\* KEYWORDS.some((k) => combined.includes(k)) for combined = t + " " + h
MatchesKeyword(el) ==
  LET combined == AnchorText(el) \o <<" ">> \o AnchorHref(el)
  IN \E i \in DOMAIN KEYWORDS : includes(combined, KEYWORDS[i])

ScanAnchor_NoDedup(candidates, el, base) ==
  IF MatchesKeyword(el) /\ ResolveUrl(AnchorHref(el), base).ok
  THEN Append(candidates, ResolveUrl(AnchorHref(el), base).href)
  ELSE candidates

\* the body of the anchor callback: the candidate list after one anchor
ScanAnchor(candidates, el, base) ==
  IF MatchesKeyword(el)
  THEN LET abs == ResolveUrl(AnchorHref(el), base) IN
       IF abs.ok /\ \A i \in DOMAIN candidates : candidates[i] # abs.href
       THEN Append(candidates, abs.href)
       ELSE candidates
  ELSE candidates

(***************************************************************************)
(* Inputs: the url field of the request body.                              *)
(***************************************************************************)
A_COM == <<"a",".","c","o","m">>
WEARCOMET == <<"w","e","a","r","c","o","m","e","t",".","c","o","m">>

\* request bodies whose url lacks a scheme
BareUrls ==
  { WEARCOMET,
    <<" ">> \o A_COM,
    <<"a"," ","b">>,
    <<" "," ">> }

\* request bodies whose url carries a scheme
SchemeUrls ==
  { HTTP \o <<"A",".","c","o","m","/","s","h","o","p">>,
    HTTPS \o A_COM \o <<" ">>,
    <<" ">> \o HTTPS \o A_COM }

InputUrls == BareUrls \cup SchemeUrls \cup { HTTPS \o s : s \in BareUrls } \cup { <<>> }

\* req.body.url: a string, or absent / not a string
UrlInputs ==
  { [isString |-> TRUE, s |-> s] : s \in InputUrls }
    \cup { [isString |-> FALSE, s |-> <<>>] }

Methods == {"POST", "GET"}

(***************************************************************************)
(* Pages the web may serve.                                                *)
(***************************************************************************)
\* "  Hi \n\n there\t" with script, style and noscript blocks
PagePlain ==
  << Element("p", <<Run(" ", 2), Run("H", 1), Run("i", 1), Run(" ", 1),
                    Run("\n", 2), Run(" ", 1), Run("t", 1), Run("h", 1),
                    Run("e", 1), Run("r", 1), Run("e", 1), Run("\t", 1)>>),
     Element("script", <<Run("x", 5)>>),
     Element("style", <<Run("y", 3)>>),
     Element("noscript", <<Run("z", 4)>>),
     Anchor(<<"A","b","o","u","t">>, <<"/","a","b","o","u","t">>) >>

\* a body longer than the ceiling
PageLong ==
  << Element("p", <<Run(" ", 3), Run("x", 30000), Run("\n", 1), Run("y", 10)>>) >>

\* a body with no text left after cleaning
PageEmpty ==
  << Element("script", <<Run("x", 5)>>), Element("p", <<Run(" ", 2), Run("\n", 1)>>) >>

\* a 600 character policy page
PagePolicy ==
  << Element("p", <<Run("p", 600)>>) >>

\* a page with policy links
PageLinks ==
  << Element("p", <<Run("S", 1), Run("h", 1), Run("o", 1), Run("p", 1)>>),
     Anchor(<<"P","o","l","i","c","y">>, <<"/","R","E","T","U","R","N","S">>),
     Anchor(<<"A","b","o","u","t">>, <<"/","a","b","o","u","t">>),
     Anchor(<<"R","e","t","u","r","n","s">>, <<"/","r","e","t","u","r","n","s">>),
     Anchor(<<"R","e","f","u","n","d">>, HTTPS),
     Anchor(<<"r","e">>, <<"t","u","r","n">>),
     Anchor(<<"F","A","Q">>, <<"/","E","x","c","h","a","n","g","e">>),
     Element("script", <<Run("x", 5)>>) >>

\* a page whose links leave the site or carry no href
PageOffsite ==
  << AnchorNoHref(<<"C","a","n","c","e","l","l","a","t","i","o","n">>),
     Anchor(<<"T","e","r","m","s">>,
            HTTPS \o <<"B",".","c","o","m","/","R","e","f","u","n","d">>),
     Anchor(<<"R","E","F","U","N","D","S">>, <<"h","t","t","p","s",":","/","/"," ","x">>),
     Element("p", <<Run("o", 24001)>>) >>

Pages == {PagePlain, PageLong, PageEmpty, PagePolicy, PageLinks, PageOffsite}

\* what one fetch(url) may produce: a network error, a non-2xx answer, a page
FetchOutcomes ==
  { [kind |-> "neterr", page |-> <<>>], [kind |-> "http404", page |-> <<>>] }
    \cup { [kind |-> "ok", page |-> p] : p \in Pages }

(***************************************************************************)
(* JSON values of the response and of the language model's answer.         *)
(* A string is either a literal of the program (lit) or a run-time string  *)
(* such as the domain (chars).                                             *)
(***************************************************************************)
Undefined == [t |-> "undefined", lit |-> "", chars |-> <<>>, num |-> 0, items |-> <<>>]
Lit(x) == [t |-> "string", lit |-> x, chars |-> <<>>, num |-> 0, items |-> <<>>]
Str(cs) == [t |-> "string", lit |-> "", chars |-> cs, num |-> 0, items |-> <<>>]
Num(k) == [t |-> "number", lit |-> "", chars |-> <<>>, num |-> k, items |-> <<>>]
Arr(xs) == [t |-> "array", lit |-> "", chars |-> <<>>, num |-> 0, items |-> xs]

\* JavaScript truthiness, as used by the || operator
Truthy(v) ==
  CASE v.t = "undefined" -> FALSE
    [] v.t = "string" -> v.lit # "" \/ v.chars # <<>>
    [] v.t = "number" -> v.num # 0
    [] OTHER -> TRUE

\* a || b
Or(a, b) == IF Truthy(a) THEN a ELSE b

UNKNOWN == <<"U","n","k","n","o","w","n">>

fallbackResponse(domain) ==
  [brand |-> Or(Str(domain), Str(UNKNOWN)),
   category |-> Lit("Other"),
   returnWindow |-> Lit("Not mentioned"),
   refundType |-> Lit("Not mentioned"),
   returnMethod |-> Lit("Not mentioned"),
   costs |-> Lit("Not mentioned"),
   conditions |-> Arr(<<Lit("No clear return/refund policy could be analyzed for this site.")>>),
   riskScore |-> Lit("2/10 High risk"),
   riskLevel |-> Lit("red"),
   benchmark |-> Lit("This is riskier than typical Indian e-commerce policies."),
   tip |-> Lit("Be cautious for high-value orders; confirm policy with customer support.")]

\* the response built from the parsed answer of the language model
BuildResponse(parsed, domain) ==
  [brand |-> Or(parsed.brand, Str(domain)),
   category |-> Or(parsed.category, Lit("Other")),
   returnWindow |-> Or(parsed.returnWindow, Lit("Not mentioned")),
   refundType |-> Or(parsed.refundType, Lit("Not mentioned")),
   returnMethod |-> Or(parsed.returnMethod, Lit("Not mentioned")),
   costs |-> Or(parsed.costs, Lit("Not mentioned")),
   conditions |->
     IF parsed.conditions.t = "array" /\ Len(parsed.conditions.items) > 0
     THEN Arr(SubSeq(parsed.conditions.items, 1,
                     IF Len(parsed.conditions.items) < MAX_CONDITIONS
                     THEN Len(parsed.conditions.items) ELSE MAX_CONDITIONS))
     ELSE Arr(<<Lit("Details not clearly mentioned in policy.")>>),
   riskScore |-> Or(parsed.riskScore, Lit("5/10 Mixed")),
   riskLevel |->
     IF parsed.riskLevel \in {Lit("green"), Lit("yellow"), Lit("red")}
     THEN parsed.riskLevel ELSE Lit("yellow"),
   benchmark |-> Or(parsed.benchmark, Lit("Broadly aligned with India's typical return practices.")),
   tip |-> Or(parsed.tip, Lit("Keep packaging and tags until you decide to keep the product."))]

\* answers of the language model, after JSON.parse
ParsedEmpty ==
  [brand |-> Undefined, category |-> Undefined, returnWindow |-> Undefined,
   refundType |-> Undefined, returnMethod |-> Undefined, costs |-> Undefined,
   conditions |-> Undefined, riskScore |-> Undefined, riskLevel |-> Undefined,
   benchmark |-> Undefined, tip |-> Undefined]

ParsedFull ==
  [brand |-> Lit("Comet"), category |-> Lit("Fashion"),
   returnWindow |-> Lit("7 days"), refundType |-> Lit("Refund to source"),
   returnMethod |-> Lit("Free pickup"), costs |-> Lit("None"),
   conditions |-> Arr(<<Lit("Unused"), Lit("Tags intact")>>),
   riskScore |-> Lit("8/10"), riskLevel |-> Lit("green"),
   benchmark |-> Lit("Better than typical."), tip |-> Lit("Keep the invoice.")]

ParsedOdd ==
  [ParsedFull EXCEPT
     !.brand = Lit(""),
     !.riskLevel = Lit("orange"),
     !.conditions = Arr(<<Lit("c1"), Lit("c2"), Lit("c3"), Lit("c4"), Lit("c5")>>)]

ParsedTypes ==
  [ParsedEmpty EXCEPT
     !.category = Num(7),
     !.riskLevel = Num(0),
     !.conditions = Lit("Unused only"),
     !.tip = Arr(<<>>)]

\* client.chat.completions.create followed by the two JSON.parse attempts:
\* the call fails, the answer does not parse, it parses to null, or it
\* parses to an object
LlmOutcomes ==
  { [kind |-> "apiError", parsed |-> <<>>],
    [kind |-> "badJson", parsed |-> <<>>],
    [kind |-> "null", parsed |-> <<>>] }
    \cup { [kind |-> "object", parsed |-> <<o>>] :
             o \in {ParsedEmpty, ParsedFull, ParsedOdd, ParsedTypes} }

(***************************************************************************)
(* State.                                                                  *)
(*   req[r]  the request handled in slot r: the handler's and the          *)
(*           resolver's local variables and the position in the code       *)
(*   cache   the module-level Map from normalized URL to                   *)
(*           {timestamp, data}                                             *)
(*   clock   Date.now(), in milliseconds                                   *)
(***************************************************************************)
VARIABLES req, cache, clock

vars == <<req, cache, clock>>

Reqs == 1..NumReqs

\* the clock advances in steps of half the time to live
TICK_MS == CACHE_TTL_MS \div 2

NewRequest(pc) ==
  [pc |-> pc,               \* position in handler / extractPolicyText
   route |-> "",            \* which handler serves the request
   policyText |-> <<>>,     \* req.body.policyText (text handlers)
   method |-> "",           \* req.method
   input |-> [isString |-> FALSE, s |-> <<>>],   \* req.body.url
   url |-> <<>>,            \* url after normalisation (cacheKey, productUrl)
   now |-> 0,               \* now
   base |-> <<>>,           \* base
   domain |-> <<>>,         \* domain
   doc |-> <<>>,            \* $ of the target page
   scanIdx |-> 0,           \* index of the next anchor of $("a").each
   candidates |-> <<>>,     \* candidates
   candIdx |-> 0,           \* index of c in candidates
   fetched |-> <<>>,        \* the fetchHtml calls made, with their outcomes
   result |-> <<>>,         \* what extractPolicyText returned or that it threw
   llmCalls |-> 0,          \* calls of client.chat.completions.create
   status |-> 0,            \* res.status
   body |-> <<>>]           \* res.json body when it is an ApiResult

Init ==
  /\ req = [r \in Reqs |-> NewRequest(IF r = 1 THEN "idle" ELSE "off")]
  /\ cache = <<>>
  /\ clock = 0

CacheSet_KeepNewest(c, key, ts, data) ==
  IF key \in DOMAIN c /\ c[key].timestamp > ts
  THEN c
  ELSE [k \in DOMAIN c \cup {key} |->
          IF k = key THEN [timestamp |-> ts, data |-> data] ELSE c[k]]

\* cache.set(key, {timestamp, data})
CacheSet(c, key, ts, data) ==
  [k \in DOMAIN c \cup {key} |->
     IF k = key THEN [timestamp |-> ts, data |-> data] ELSE c[k]]

CacheFresh_Inclusive(c, key, now) ==
  key \in DOMAIN c /\ now - c[key].timestamp <= CACHE_TTL_MS

\* cached && now - cached.timestamp < CACHE_TTL_MS
CacheFresh(c, key, now) ==
  key \in DOMAIN c /\ now - c[key].timestamp < CACHE_TTL_MS

Truncate_NoCut(txt) == txt

\* txt.slice(0, 24000)
Truncate(txt) == Slice(txt, TEXT_LIMIT)

Returned(text, domain) == <<[threw |-> FALSE, text |-> text, domain |-> domain]>>
Threw == <<[threw |-> TRUE, text |-> <<>>, domain |-> <<>>]>>

Fetched(url, o) == [url |-> url, kind |-> o.kind, page |-> o.page]

ScrapingError_Rethrows(domain) == Threw

\* catch (err) { console.error("Scraping error:", err); return {text: "", domain} }
ScrapingError(domain) == Returned(<<>>, domain)

FallbackTarget_FirstCandidate(productUrl, candidates) == candidates[1]

\* the page of the fallback: fetchHtml(productUrl)
FallbackTarget(productUrl, candidates) == productUrl

\* catch (err) { console.error("Final fallback error:", err); return {text: "", domain} }
FinalFallbackError(domain) == Returned(<<>>, domain)

(***************************************************************************)
(* handler, from its entry to the first await: method and body checks,     *)
(* URL normalisation, cache check, and the synchronous head of             *)
(* extractPolicyText (new URL, the call of fetchHtml).                     *)
(***************************************************************************)
Receive(r, m, inp) ==
  /\ req[r].pc = "idle"
  /\ UNCHANGED <<cache, clock>>
  /\ LET q == [req[r] EXCEPT !.route = "url", !.method = m, !.input = inp] IN
     IF m # "POST"
     THEN req' = [req EXCEPT ![r] = [q EXCEPT !.pc = "done", !.status = 405]]
     ELSE IF ~inp.isString \/ inp.s = <<>>
     THEN req' = [req EXCEPT ![r] =
                    [q EXCEPT !.pc = "done", !.status = 200,
                              !.body = <<fallbackResponse(UNKNOWN)>>]]
     ELSE LET url == NormalizeUrl(inp.s)
              now == clock
              u == ParseUrl(url)
          IN IF CacheFresh(cache, url, now)
             THEN req' = [req EXCEPT ![r] =
                            [q EXCEPT !.pc = "done", !.url = url, !.now = now,
                                      !.status = 200,
                                      !.body = <<cache[url].data>>]]
             ELSE IF ~u.ok
             THEN req' = [req EXCEPT ![r] =
                            [q EXCEPT !.pc = "returned", !.url = url,
                                      !.now = now, !.result = Threw]]
             ELSE req' = [req EXCEPT ![r] =
                            [q EXCEPT !.pc = "fetchTarget", !.url = url,
                                      !.now = now, !.base = u.origin,
                                      !.domain = u.hostname,
                                      !.candidates = <<>>]]

(***************************************************************************)
(* extractPolicyText: fetchHtml(productUrl) completes.                     *)
(***************************************************************************)
FetchTargetDone(r, o) ==
  /\ req[r].pc = "fetchTarget"
  /\ UNCHANGED <<cache, clock>>
  /\ LET q == [req[r] EXCEPT !.fetched = Append(@, Fetched(req[r].url, o))] IN
     IF o.kind # "ok"
     THEN req' = [req EXCEPT ![r] =
                    [q EXCEPT !.pc = "returned",
                              !.result = ScrapingError(q.domain)]]
     ELSE req' = [req EXCEPT ![r] =
                    [q EXCEPT !.pc = "scan", !.doc = o.page, !.scanIdx = 1]]

\* one call of the $("a").each callback
ScanStep(r) ==
  /\ req[r].pc = "scan"
  /\ req[r].scanIdx <= Len(Anchors(req[r].doc))
  /\ UNCHANGED <<cache, clock>>
  /\ req' = [req EXCEPT ![r] =
               [@ EXCEPT !.candidates =
                           ScanAnchor(@, Anchors(req[r].doc)[req[r].scanIdx],
                                      req[r].base),
                         !.scanIdx = @ + 1]]

\* after the scan: return the page's own text, or start on the candidates
ScanEnd(r) ==
  /\ req[r].pc = "scan"
  /\ req[r].scanIdx > Len(Anchors(req[r].doc))
  /\ UNCHANGED <<cache, clock>>
  /\ IF Len(req[r].candidates) = 0
     THEN req' = [req EXCEPT ![r] =
                    [@ EXCEPT !.pc = "returned",
                              !.result = Returned(Truncate(CleanText(req[r].doc)),
                                                  req[r].domain)]]
     ELSE req' = [req EXCEPT ![r] =
                    [@ EXCEPT !.pc = "fetchCandidate", !.candIdx = 1]]

Usable_AnyText(txt) == TRUE

\* if (txt.length > 0)
Usable(txt) == TextLen(txt) > 0

\* one round of the loop over candidates: fetchHtml(c) completes
FetchCandidateDone(r, o) ==
  /\ req[r].pc = "fetchCandidate"
  /\ UNCHANGED <<cache, clock>>
  /\ LET c == req[r].candidates[req[r].candIdx]
         q == [req[r] EXCEPT !.fetched = Append(@, Fetched(c, o))]
         txt == CleanText(o.page)
     IN IF o.kind = "ok" /\ Usable(txt)
        THEN req' = [req EXCEPT ![r] =
                       [q EXCEPT !.pc = "returned",
                                 !.result = Returned(Truncate(txt), q.domain)]]
        ELSE IF q.candIdx < Len(q.candidates)
        THEN req' = [req EXCEPT ![r] = [q EXCEPT !.candIdx = @ + 1]]
        ELSE req' = [req EXCEPT ![r] = [q EXCEPT !.pc = "fetchFallback"]]

\* the fallback to the original page: fetchHtml(productUrl) completes
FetchFallbackDone_Caches(r, o) ==
  /\ req[r].pc = "fetchFallback"
  /\ UNCHANGED clock
  /\ cache' = CacheSet(cache, req[r].url, req[r].now, fallbackResponse(req[r].domain))
  /\ req' = [req EXCEPT ![r] =
               [@ EXCEPT !.pc = "returned",
                         !.result = FinalFallbackError(req[r].domain)]]

FetchFallbackDone(r, o) ==
  /\ req[r].pc = "fetchFallback"
  /\ UNCHANGED <<cache, clock>>
  /\ LET q == [req[r] EXCEPT
                 !.fetched = Append(@, Fetched(FallbackTarget(req[r].url,
                                                              req[r].candidates), o))]
     IN
     IF o.kind = "ok"
     THEN req' = [req EXCEPT ![r] =
                    [q EXCEPT !.pc = "returned",
                              !.result = Returned(Truncate(CleanText(o.page)),
                                                  q.domain)]]
     ELSE req' = [req EXCEPT ![r] =
                    [q EXCEPT !.pc = "returned",
                              !.result = FinalFallbackError(q.domain)]]

(***************************************************************************)
(* handler, after await extractPolicyText(url).                            *)
(***************************************************************************)
NoPolicyText_Skipped(text) == FALSE

\* !policyText || policyText.trim().length === 0
NoPolicyText(text) == TextLen(text) = 0 \/ TextLen(TextTrim(text)) = 0

Resume(r) ==
  /\ req[r].pc = "returned"
  /\ UNCHANGED clock
  /\ LET res == req[r].result[1] IN
     IF res.threw
     THEN /\ req' = [req EXCEPT ![r] = [@ EXCEPT !.pc = "done", !.status = 500]]
          /\ UNCHANGED cache
     ELSE IF NoPolicyText(res.text)
     THEN /\ cache' = CacheSet(cache, req[r].url, req[r].now,
                               fallbackResponse(res.domain))
          /\ req' = [req EXCEPT ![r] =
                       [@ EXCEPT !.pc = "done", !.status = 200,
                                 !.body = <<fallbackResponse(res.domain)>>]]
     ELSE /\ req' = [req EXCEPT ![r] =
                       [@ EXCEPT !.pc = "llm", !.llmCalls = @ + 1]]
          /\ UNCHANGED cache

LlmDone_CachesError(r, o) ==
  /\ req[r].pc = "llm"
  /\ UNCHANGED clock
  /\ LET response == IF o.kind # "object"
                     THEN fallbackResponse(req[r].result[1].domain)
                     ELSE BuildResponse(o.parsed[1], req[r].result[1].domain)
     IN
     /\ cache' = CacheSet(cache, req[r].url, req[r].now, response)
     /\ req' = [req EXCEPT ![r] =
                  IF o.kind # "object"
                  THEN [@ EXCEPT !.pc = "done", !.status = 500]
                  ELSE [@ EXCEPT !.pc = "done", !.status = 200,
                                 !.body = <<response>>]]

\* client.chat.completions.create completes; parse, normalise, store, answer
LlmDone(r, o) ==
  /\ req[r].pc = "llm"
  /\ UNCHANGED clock
  /\ IF o.kind # "object"
     THEN /\ req' = [req EXCEPT ![r] = [@ EXCEPT !.pc = "done", !.status = 500]]
          /\ UNCHANGED cache
     ELSE LET response == BuildResponse(o.parsed[1], req[r].result[1].domain) IN
          /\ cache' = CacheSet(cache, req[r].url, req[r].now, response)
          /\ req' = [req EXCEPT ![r] =
                       [@ EXCEPT !.pc = "done", !.status = 200,
                                 !.body = <<response>>]]

(***************************************************************************)
(* The handlers that take the policy text from the request body            *)
(* (pages/api/analyze.ts, and its variant with a 200 character floor).     *)
(***************************************************************************)
\* req.body.policyText: absent or empty, blank, short, long
PolicyTexts ==
  { <<>>,
    <<Run(" ", 2), Run("\n", 1)>>,
    <<Run("p", 150)>>,
    <<Run("p", 600)>> }

\* req.body.domain: absent or a hostname
BodyDomains == { <<>>, WEARCOMET }

MIN_TEXT_LEN == 200

\* domain || "Unknown"
DomainOrUnknown(domain) == IF domain # <<>> THEN domain ELSE UNKNOWN

\* if (!policyText || policyText.trim().length === 0)
TextMissing(route, text) ==
  IF route = "text"
  THEN TextLen(text) = 0 \/ TextLen(TextTrim(text)) = 0
  ELSE TextLen(text) = 0 \/ TextLen(TextTrim(text)) < MIN_TEXT_LEN

\* fallbackResponse of the text handlers
textFallback(route, domain) ==
  IF route = "text"
  THEN fallbackResponse(DomainOrUnknown(domain))
  ELSE [fallbackResponse(DomainOrUnknown(domain)) EXCEPT
          !.benchmark = Lit("Lack of a clear, visible policy is riskier than typical Indian sites."),
          !.tip = Lit("Be cautious for high-value orders; try to find written policy or confirm with customer support.")]

\* the response the text handlers build from the parsed answer
BuildTextResponse(route, parsed, domain) ==
  [BuildResponse(parsed, DomainOrUnknown(domain)) EXCEPT
     !.riskScore =
        Or(parsed.riskScore,
           IF route = "text" THEN Lit("5/10 Okay, but review policy carefully")
           ELSE Lit("5/10 Okay, but read conditions")),
     !.benchmark =
        Or(parsed.benchmark,
           IF route = "text"
           THEN Lit("Broadly in line with what Indian brands usually follow.")
           ELSE Lit("Roughly in line with what Indian shoppers usually see for this category.")),
     !.tip =
        Or(parsed.tip,
           IF route = "text"
           THEN Lit("Keep original packaging/tags until you decide to keep the product.")
           ELSE Lit("Keep tags/packaging until you decide to keep the product."))]

\* handler of a text route, from its entry to the call of the language model
ReceiveText(r, route, m, text, domain) ==
  /\ req[r].pc = "idle"
  /\ UNCHANGED <<cache, clock>>
  /\ LET q == [req[r] EXCEPT !.route = route, !.method = m,
                             !.policyText = text, !.domain = domain] IN
     IF m # "POST"
     THEN req' = [req EXCEPT ![r] = [q EXCEPT !.pc = "done", !.status = 405]]
     ELSE IF TextMissing(route, text)
     THEN req' = [req EXCEPT ![r] =
                    [q EXCEPT !.pc = "done", !.status = 200,
                              !.body = <<textFallback(route, domain)>>]]
     ELSE req' = [req EXCEPT ![r] = [q EXCEPT !.pc = "llmText", !.llmCalls = @ + 1]]

\* handler of a text route, after the call of the language model
LlmTextDone(r, o) ==
  /\ req[r].pc = "llmText"
  /\ UNCHANGED <<cache, clock>>
  /\ IF o.kind = "object"
     THEN req' = [req EXCEPT ![r] =
                    [@ EXCEPT !.pc = "done", !.status = 200,
                              !.body = <<BuildTextResponse(req[r].route, o.parsed[1],
                                                           req[r].domain)>>]]
     ELSE IF req[r].route = "text"
     THEN req' = [req EXCEPT ![r] = [@ EXCEPT !.pc = "done", !.status = 500]]
     ELSE req' = [req EXCEPT ![r] =
                    [@ EXCEPT !.pc = "done", !.status = 200,
                              !.body = <<textFallback(req[r].route, req[r].domain)>>]]

\* time passes
Tick ==
  /\ clock < MaxTicks * TICK_MS
  /\ clock' = clock + TICK_MS
  /\ UNCHANGED <<req, cache>>

Next ==
  \/ \E r \in Reqs, m \in Methods, inp \in UrlInputs : Receive(r, m, inp)
  \/ \E r \in Reqs, o \in FetchOutcomes : FetchTargetDone(r, o)
  \/ \E r \in Reqs : ScanStep(r)
  \/ \E r \in Reqs : ScanEnd(r)
  \/ \E r \in Reqs, o \in FetchOutcomes : FetchCandidateDone(r, o)
  \/ \E r \in Reqs, o \in FetchOutcomes : FetchFallbackDone(r, o)
  \/ \E r \in Reqs : Resume(r)
  \/ \E r \in Reqs, o \in LlmOutcomes : LlmDone(r, o)
  \/ \E r \in Reqs, route \in {"text", "text200"}, m \in Methods,
        text \in PolicyTexts, domain \in BodyDomains :
       ReceiveText(r, route, m, text, domain)
  \/ \E r \in Reqs, o \in LlmOutcomes : LlmTextDone(r, o)
  \/ Tick

Spec == Init /\ [][Next]_vars

(***************************************************************************)
(* Two requests to the URL handler in flight at once, sharing the cache.   *)
(***************************************************************************)
\* the slots of the two requests
Overlapping == {1, 2}

\* req.body.url: absent, a site, and no URL at all
CacheInputs ==
  { [isString |-> FALSE, s |-> <<>>],
    [isString |-> TRUE, s |-> <<" ">> \o A_COM],
    [isString |-> TRUE, s |-> <<"a"," ","b">>] }

\* a page with one policy link
PageReturns ==
  << Element("p", <<Run("S", 1), Run("h", 1), Run("o", 1), Run("p", 1)>>),
     Anchor(<<"R","e","t","u","r","n","s">>, <<"/","r","e","t","u","r","n","s">>) >>

CacheFetchOutcomes ==
  { [kind |-> "neterr", page |-> <<>>] }
    \cup { [kind |-> "ok", page |-> p] : p \in {PageEmpty, PagePolicy, PageReturns} }

CacheLlmOutcomes ==
  { [kind |-> "apiError", parsed |-> <<>>] }
    \cup { [kind |-> "object", parsed |-> <<o>>] : o \in {ParsedFull, ParsedOdd} }

InitCache ==
  /\ req = [r \in Reqs |-> NewRequest(IF r \in Overlapping THEN "idle" ELSE "off")]
  /\ cache = <<>>
  /\ clock = 0

NextCache ==
  \/ \E r \in Reqs, m \in Methods, inp \in CacheInputs : Receive(r, m, inp)
  \/ \E r \in Reqs, o \in CacheFetchOutcomes : FetchTargetDone(r, o)
  \/ \E r \in Reqs : ScanStep(r)
  \/ \E r \in Reqs : ScanEnd(r)
  \/ \E r \in Reqs, o \in CacheFetchOutcomes : FetchCandidateDone(r, o)
  \/ \E r \in Reqs, o \in CacheFetchOutcomes : FetchFallbackDone(r, o)
  \/ \E r \in Reqs : Resume(r)
  \/ \E r \in Reqs, o \in CacheLlmOutcomes : LlmDone(r, o)
  \/ Tick

SpecCache == InitCache /\ [][NextCache]_vars

TypeOK ==
  /\ \A r \in Reqs :
       req[r].pc \in {"off", "idle", "fetchTarget", "scan", "fetchCandidate",
                      "fetchFallback", "returned", "llm", "llmText", "done"}
  /\ clock \in 0..(MaxTicks * TICK_MS)

(***************************************************************************)
(* Properties of extractPolicyText.                                        *)
(***************************************************************************)
\* extractPolicyText has completed in slot r (by returning or by throwing)
Completed(r) == req[r].result # <<>>
Outcome(r) == req[r].result[1]

\* the fetches of a completed resolution, by their place in the code
TargetFetch(r) == req[r].fetched[1]
CandidateFetched(r, i) == Len(req[r].fetched) >= i + 1 /\ Len(req[r].candidates) >= i
CandidateFetch(r, i) == req[r].fetched[i + 1]
FallbackFetched(r) ==
  Len(req[r].candidates) > 0 /\ Len(req[r].fetched) = Len(req[r].candidates) + 2
FallbackFetch(r) == req[r].fetched[Len(req[r].fetched)]

\* C1: for every input string and every combination of fetch outcomes and
\* page contents, extractPolicyText never raises to its caller: it completes
\* by returning {text, domain} with domain the hostname of the original URL.
C1_NeverRaises ==
  \A r \in Reqs :
    Completed(r) =>
      /\ ~Outcome(r).threw
      /\ Outcome(r).domain = ParseUrl(req[r].url).hostname

\* C2: if the fetch of the target page fails (network error or non-2xx), and
\* in particular when every fetch of the resolution fails, extractPolicyText
\* returns exactly {text: "", domain: hostname of the target URL}.
TargetFetchFailed(r) ==
  /\ Len(req[r].fetched) >= 1
  /\ \/ TargetFetch(r).kind # "ok"
     \/ FallbackFetched(r) /\ FallbackFetch(r).kind # "ok"

C2_TargetFetchFailsGivesEmpty ==
  \A r \in Reqs :
    Completed(r) /\ TargetFetchFailed(r) =>
      /\ ~Outcome(r).threw
      /\ Outcome(r).text = <<>>
      /\ Outcome(r).domain = ParseUrl(req[r].url).hostname
      /\ req[r].input.s = WEARCOMET => Outcome(r).domain = WEARCOMET

\* the target page answered 404: the only fetch made, and it failed
C2_Witness ==
  \E r \in Reqs :
    /\ Completed(r)
    /\ req[r].input.s = WEARCOMET
    /\ Len(req[r].fetched) = 1 /\ TargetFetch(r).kind = "http404"
    /\ Outcome(r) = [threw |-> FALSE, text |-> <<>>, domain |-> WEARCOMET]

\* C3: with more than one candidate, the text returned is that of the first
\* candidate in discovery order whose fetch succeeded with non-empty cleaned
\* text; failed and empty candidates before it were tried and skipped.
GoodCandidate(r, i) ==
  /\ CandidateFetched(r, i)
  /\ CandidateFetch(r, i).kind = "ok"
  /\ TextLen(CleanText(CandidateFetch(r, i).page)) > 0

\* the candidates fetched by a completed resolution
CandidatesTried(r) ==
  IF FallbackFetched(r) THEN Len(req[r].candidates) ELSE Len(req[r].fetched) - 1

C3_FirstUsableCandidate ==
  \A r \in Reqs :
    Completed(r) /\ Len(req[r].candidates) > 1 =>
      LET k == CandidatesTried(r) IN
      /\ k >= 1
      /\ \A j \in 1..k : CandidateFetch(r, j).url = req[r].candidates[j]
      /\ \A j \in 1..(k - 1) : ~GoodCandidate(r, j)
      /\ IF FallbackFetched(r)
         THEN ~GoodCandidate(r, k)
         ELSE /\ GoodCandidate(r, k)
              /\ Outcome(r).text = Slice(CleanText(CandidateFetch(r, k).page), TEXT_LIMIT)
              /\ Outcome(r).text # <<>>

\* the first candidate answered with an empty body, the second with text
C3_Witness ==
  \E r \in Reqs :
    /\ Completed(r) /\ Len(req[r].candidates) > 1
    /\ CandidateFetched(r, 2)
    /\ CandidateFetch(r, 1).kind = "ok"
    /\ CleanText(CandidateFetch(r, 1).page) = <<>>
    /\ CandidateFetch(r, 2).page = PagePolicy
    /\ Outcome(r).text = <<Run("p", 600)>>

\* C4: target fetched, zero candidates: the text is the page's body text with
\* script/style/noscript content removed, whitespace runs collapsed to single
\* spaces, trimmed, cut to 24,000 characters; no further fetch is made.
SingleSpaced(t) ==
  /\ \A i \in DOMAIN t : t[i].c \in Whitespace => t[i].c = " " /\ t[i].n = 1
  /\ t # <<>> => Head(t).c # " " /\ t[Len(t)].c # " "

C4_ZeroCandidatesOwnText ==
  \A r \in Reqs :
    /\ Completed(r) /\ Len(req[r].fetched) >= 1
    /\ TargetFetch(r).kind = "ok" /\ req[r].candidates = <<>>
    => /\ Outcome(r).text =
            Slice(TextTrim(CollapseWhitespace(BodyText(
                    SelectSeq(TargetFetch(r).page,
                              LAMBDA el : el.tag \notin {"script", "style", "noscript"})))),
                  24000)
       /\ SingleSpaced(Outcome(r).text)
       /\ TargetFetch(r).page = PagePlain =>
            Outcome(r).text = Runs(<<"H","i"," ","t","h","e","r","e"," ",
                                     "A","b","o","u","t">>)
       /\ TargetFetch(r).page = PageLong =>
            Outcome(r).text = <<Run("x", 24000)>>
       /\ Len(req[r].fetched) = 1

C4_Witness ==
  \E r \in Reqs :
    /\ Completed(r) /\ req[r].candidates = <<>>
    /\ Len(req[r].fetched) = 1
    /\ TargetFetch(r).page = PageLong
    /\ TextLen(Outcome(r).text) = TEXT_LIMIT

\* C5 as stated: with at least one candidate and none usable, the text
\* returned is the first candidate's cleaned text, not the original page's.
NoUsableCandidate(r) ==
  /\ Len(req[r].candidates) >= 1
  /\ CandidatesTried(r) = Len(req[r].candidates)
  /\ \A j \in DOMAIN req[r].candidates : ~GoodCandidate(r, j)

FirstCandidateText(r) ==
  IF CandidateFetch(r, 1).kind = "ok"
  THEN Slice(CleanText(CandidateFetch(r, 1).page), TEXT_LIMIT)
  ELSE <<>>

REFUND_POLICY_PATH ==
  <<"/","p","o","l","i","c","i","e","s","/",
    "r","e","f","u","n","d","-","p","o","l","i","c","y">>

NoKeywordAnchors(page) ==
  \A i \in DOMAIN page :
    page[i].tag = "a" =>
      \A k \in DOMAIN KEYWORDS :
        /\ ~includes(toLowerCase(Chars(page[i].text)), KEYWORDS[k])
        /\ ~includes(toLowerCase(page[i].href), KEYWORDS[k])

C6_ProbesConventionalPaths ==
  \A r \in Reqs :
    /\ Completed(r) /\ ~Outcome(r).threw
    /\ req[r].input.s = WEARCOMET
    /\ Len(req[r].fetched) >= 1 /\ TargetFetch(r).kind = "ok"
    /\ NoKeywordAnchors(TargetFetch(r).page)
    => /\ Outcome(r).domain = WEARCOMET
       /\ \E i \in DOMAIN req[r].fetched :
            /\ i > 1
            /\ req[r].fetched[i].url = HTTPS \o WEARCOMET \o REFUND_POLICY_PATH

\* C7: on every return path the text returned has at most 24,000 characters.
C7_TextBounded ==
  \A r \in Reqs :
    Completed(r) /\ ~Outcome(r).threw => TextLen(Outcome(r).text) <= 24000

\* a page longer than the ceiling came back on the fallback path and was cut
C7_Witness ==
  \E r \in Reqs :
    /\ Completed(r) /\ FallbackFetched(r)
    /\ FallbackFetch(r).kind = "ok"
    /\ TextLen(CleanText(FallbackFetch(r).page)) > 24000
    /\ TextLen(Outcome(r).text) = 24000

(***************************************************************************)
(* Properties of the anchor scan.                                          *)
(***************************************************************************)
\* the anchors of the target page and those the scan has handled so far
PageAnchors(r) == SelectSeq(req[r].doc, LAMBDA el : el.tag = "a")
Scanned(r) == 1..(req[r].scanIdx - 1)

\* the anchor's text or its href holds a keyword, letter case ignored
KeywordIn(el) ==
  \E k \in {KW_RETURN, KW_REFUND, KW_EXCHANGE, KW_CANCELLATION} :
    \/ includes(toLowerCase(Chars(el.text)), k)
    \/ includes(toLowerCase(el.href), k)

\* what the anchor's href resolves to against the origin of the target URL
Resolved(r, el) == ResolveUrl(toLowerCase(el.href), req[r].base)

Yields(r, p) == KeywordIn(PageAnchors(r)[p]) /\ Resolved(r, PageAnchors(r)[p]).ok

\* the first scanned anchor that yields the URL c
FirstAnchorOf(r, c) ==
  CHOOSE p \in Scanned(r) :
    /\ Yields(r, p) /\ Resolved(r, PageAnchors(r)[p]).href = c
    /\ \A q \in 1..(p - 1) :
         ~(Yields(r, q) /\ Resolved(r, PageAnchors(r)[q]).href = c)

\* C8: at every point of the anchor scan the candidate list holds no string
\* twice, and the candidates stand in the order in which their first matching
\* anchors occur in the document.
C8_CandidatesOrderedNoDuplicates ==
  \A r \in Reqs :
    req[r].pc = "scan" =>
      LET cs == req[r].candidates IN
      /\ \A i, j \in DOMAIN cs : i # j => cs[i] # cs[j]
      /\ \A i \in DOMAIN cs :
           \E p \in Scanned(r) :
             Yields(r, p) /\ Resolved(r, PageAnchors(r)[p]).href = cs[i]
      /\ \A p \in Scanned(r) :
           Yields(r, p) =>
             \E i \in DOMAIN cs : cs[i] = Resolved(r, PageAnchors(r)[p]).href
      /\ \A i, j \in DOMAIN cs :
           i < j => FirstAnchorOf(r, cs[i]) < FirstAnchorOf(r, cs[j])

\* mid-scan: two anchors resolving to the same URL were seen, one candidate
C8_Witness ==
  \E r \in Reqs :
    /\ req[r].pc = "scan" /\ req[r].doc = PageLinks
    /\ req[r].scanIdx = 4
    /\ Yields(r, 1) /\ Yields(r, 3)
    /\ Resolved(r, PageAnchors(r)[1]).href = Resolved(r, PageAnchors(r)[3]).href
    /\ Len(req[r].candidates) = 1

\* C9: an anchor becomes a candidate exactly when its text or its href holds
\* one of the keywords, letter case ignored, and its href resolves; so
\* <a href="/RETURNS">Policy</a> is selected.
C9_CandidateIffKeyword ==
  [][\A r \in Reqs :
       req[r].pc = "scan" /\ req'[r].scanIdx = req[r].scanIdx + 1 =>
         LET el == PageAnchors(r)[req[r].scanIdx] IN
         /\ KeywordIn(el) /\ Resolved(r, el).ok =>
              \E i \in DOMAIN req'[r].candidates :
                req'[r].candidates[i] = Resolved(r, el).href
         /\ ~(KeywordIn(el) /\ Resolved(r, el).ok) =>
              req'[r].candidates = req[r].candidates
         /\ (el.href = <<"/","R","E","T","U","R","N","S">> /\ req[r].base = HTTPS \o A_COM) =>
              req'[r].candidates = <<HTTPS \o A_COM \o <<"/","r","e","t","u","r","n","s">> >>
    ]_vars

\* <a href="/RETURNS">Policy</a> has been scanned and is the first candidate
C9_Witness ==
  \E r \in Reqs :
    /\ req[r].pc = "scan" /\ req[r].scanIdx = 3
    /\ PageAnchors(r)[1].href = <<"/","R","E","T","U","R","N","S">>
    /\ PageAnchors(r)[1].text = Runs(<<"P","o","l","i","c","y">>)
    /\ req[r].candidates = <<req[r].base \o <<"/","r","e","t","u","r","n","s">> >>

(***************************************************************************)
(* Properties of the handler's URL normalisation.                          *)
(***************************************************************************)
HasScheme(s) == startsWith(s, HTTP) \/ startsWith(s, HTTPS)

\* the handler has normalised the url of the request in slot r
Normalized(r) == req[r].url # <<>>

\* C10 as stated: an input without scheme is handled as "https://" + input
\* would be (same normalized URL, cache key, origin and domain), and an input
\* that starts with http:// or https:// is left unchanged.
C10_SchemeDefault ==
  \A r \in Reqs :
    Normalized(r) =>
      LET s == req[r].input.s IN
      IF ~HasScheme(s)
      THEN /\ req[r].url = NormalizeUrl(HTTPS \o s)
           /\ ParseUrl(req[r].url) = ParseUrl(NormalizeUrl(HTTPS \o s))
      ELSE req[r].url = s

\* C10, amended: with t the input stripped of leading and trailing
\* whitespace, an input whose t lacks a scheme is handled as "https://" + t
\* would be (same normalized URL, cache key, origin and domain), an input
\* whose t starts with http:// or https:// is normalized to t itself, and
\* normalizing a normalized URL changes nothing.
C10_SchemeDefaultAfterTrim ==
  \A r \in Reqs :
    Normalized(r) =>
      LET t == TrimEnd(TrimStart(req[r].input.s)) IN
      /\ IF ~HasScheme(t)
         THEN /\ req[r].url = HTTPS \o t
              /\ req[r].url = NormalizeUrl(HTTPS \o t)
         ELSE req[r].url = t
      /\ NormalizeUrl(req[r].url) = req[r].url
      /\ req[r].base # <<>> =>
           /\ req[r].base = ParseUrl(IF HasScheme(t) THEN t ELSE HTTPS \o t).origin
           /\ req[r].domain = ParseUrl(IF HasScheme(t) THEN t ELSE HTTPS \o t).hostname
      /\ DOMAIN cache \subseteq {IF HasScheme(t) THEN t ELSE HTTPS \o t}
      /\ (req[r].pc = "done" /\ req[r].status = 200) => req[r].url \in DOMAIN cache

\* " a.com" was normalized to "https://a.com", resolved and cached under it
C10_Witness ==
  \E r \in Reqs :
    /\ req[r].input.s = <<" ">> \o A_COM
    /\ req[r].url = HTTPS \o A_COM
    /\ req[r].base = HTTPS \o A_COM /\ req[r].domain = A_COM
    /\ req[r].pc = "done"
    /\ DOMAIN cache = {HTTPS \o A_COM}

(***************************************************************************)
(* Properties of the handlers.                                             *)
(***************************************************************************)
\* the policy text the handler in slot r works on, once it has it
HasPolicyText(r) ==
  IF req[r].route = "url" THEN Completed(r) /\ ~Outcome(r).threw
  ELSE req[r].route = "text" /\ req[r].method = "POST"

PolicyTextOf(r) == IF req[r].route = "url" THEN Outcome(r).text ELSE req[r].policyText

\* the text holds no character other than whitespace
Blank(t) == \A i \in DOMAIN t : t[i].c \in {" ", "\n", "\t"}

\* C11: whenever the resolved policy text is empty or whitespace-only, the
\* handler answers with status 200 and the canned low-confidence placeholder
\* (brand the derived domain or "Unknown", riskLevel "red", every policy field
\* "Not mentioned") and never calls the language model for that request.
C11_EmptyTextGivesPlaceholder ==
  \A r \in Reqs :
    HasPolicyText(r) /\ Blank(PolicyTextOf(r)) =>
      /\ req[r].llmCalls = 0
      /\ req[r].pc \in {"returned", "done"}
      /\ req[r].pc = "done" =>
           /\ req[r].status = 200
           /\ Len(req[r].body) = 1
           /\ req[r].body[1].brand =
                Str(IF req[r].domain # <<>> THEN req[r].domain
                    ELSE <<"U","n","k","n","o","w","n">>)
           /\ req[r].body[1].riskLevel = Lit("red")
           /\ \A f \in {"returnWindow", "refundType", "returnMethod", "costs"} :
                req[r].body[1][f] = Lit("Not mentioned")

\* the resolver returned empty text for wearcomet.com and the handler answered
C11_Witness ==
  \E r \in Reqs :
    /\ req[r].route = "url" /\ req[r].pc = "done"
    /\ Completed(r) /\ ~Outcome(r).threw /\ Outcome(r).text = <<>>
    /\ req[r].status = 200
    /\ req[r].body[1].brand = Str(WEARCOMET)
    /\ req[r].llmCalls = 0

\* a value that is there and is not an empty string or an empty list
NonEmpty(v) ==
  /\ v.t # "undefined"
  /\ v.t = "string" => (v.lit # "" \/ v.chars # <<>>)
  /\ v.t = "array" => v.items # <<>>

RiskAndConditionsOk(b) ==
  /\ b.riskLevel \in {Lit("green"), Lit("yellow"), Lit("red")}
  /\ b.conditions.t = "array"
  /\ Len(b.conditions.items) >= 1 /\ Len(b.conditions.items) <= 3

WellFormed(b) ==
  /\ RiskAndConditionsOk(b)
  /\ \A f \in {"brand", "category", "returnWindow", "refundType", "returnMethod",
               "costs", "riskScore", "benchmark", "tip"} : NonEmpty(b[f])

\* C12: every status-200 body of the normalizing handlers (fresh, fallback or
\* served from cache), whatever the language model returned, has riskLevel one
\* of "green", "yellow", "red", a conditions array of 1 to 3 entries, and every
\* other fixed key present and non-empty.
C12_ResponseWellFormed ==
  /\ \A r \in Reqs :
       req[r].pc = "done" /\ req[r].status = 200 => WellFormed(req[r].body[1])
  /\ \A k \in DOMAIN cache : WellFormed(cache[k].data)

\* the part of C12 about riskLevel and conditions alone
RiskAndConditionsAlways ==
  /\ \A r \in Reqs :
       req[r].pc = "done" /\ req[r].status = 200 => RiskAndConditionsOk(req[r].body[1])
  /\ \A k \in DOMAIN cache : RiskAndConditionsOk(cache[k].data)

\* the positions of a request inside extractPolicyText
ResolverPcs == {"fetchTarget", "scan", "fetchCandidate", "fetchFallback"}

\* C13: extractPolicyText never writes the cache (no step taken inside it
\* changes the cache) and never reads it (two runs of it on the same URL that
\* fetched the same pages return the same result, whatever the cache held).
C13_ResolverLeavesCache ==
  /\ [][\A r \in Reqs :
          req[r].pc \in ResolverPcs /\ req'[r] # req[r] => cache' = cache]_vars
  /\ [](\A r1, r2 \in Reqs :
          /\ req[r1].route = "url" /\ req[r2].route = "url"
          /\ Completed(r1) /\ Completed(r2)
          /\ req[r1].url = req[r2].url
          /\ req[r1].fetched = req[r2].fetched
          => req[r1].result = req[r2].result)

\* extractPolicyText has run to its end for a URL that has a cache entry
C13_Witness ==
  \E r \in Reqs :
    /\ req[r].route = "url" /\ req[r].pc = "returned"
    /\ ~Outcome(r).threw
    /\ Len(req[r].fetched) >= 2
    /\ req[r].url \in DOMAIN cache

SIX_HOURS_MS == 21600000

\* the step is the handler's entry for a POST with a string url in slot r
ChecksCache(r) ==
  /\ req[r].pc = "idle" /\ req'[r].pc # "idle"
  /\ req'[r].method = "POST"
  /\ req'[r].input.isString /\ req'[r].input.s # <<>>

\* the step in slot r answers from the entry stored under key
ServesStored(r, key) ==
  /\ req'[r].pc = "done" /\ req'[r].status = 200
  /\ req'[r].body = <<cache[key].data>>
  /\ req'[r].fetched = <<>> /\ req'[r].llmCalls = 0
  /\ cache' = cache

\* C15: for a POST with a string url the handler serves the stored response
\* (status 200, no fetch, no call of the language model, cache unchanged) if
\* and only if the cache holds an entry for the normalized URL whose timestamp
\* is less than 6 hours before the time read at the cache check; otherwise it
\* runs extractPolicyText, and an entry it then stores carries the time read
\* at the cache check.
C15_HitIffFresh ==
  [][\A r \in Reqs :
       /\ ChecksCache(r) =>
            LET key == NormalizeUrl(req'[r].input.s) IN
            /\ req'[r].url = key /\ req'[r].now = clock
            /\ IF key \in DOMAIN cache /\ clock - cache[key].timestamp < SIX_HOURS_MS
               THEN ServesStored(r, key)
               ELSE /\ req'[r].pc \in {"fetchTarget", "returned"}
                    /\ req'[r].pc = "returned" => req'[r].result = Threw
                    /\ cache' = cache
       /\ (req[r].pc \in {"returned", "llm"} /\ req'[r] # req[r] /\ cache' # cache) =>
            /\ req[r].url \in DOMAIN cache'
            /\ cache'[req[r].url].timestamp = req[r].now
            /\ \A k \in DOMAIN cache : k # req[r].url => cache'[k] = cache[k]
    ]_vars

\* a request was served, half the lifetime after the entry's timestamp, the
\* entry that an earlier request stored under the time of its own cache check
C15_Witness ==
  \E r, w \in Reqs :
    /\ req[r].pc = "done" /\ req[r].status = 200
    /\ req[r].input.isString /\ req[r].fetched = <<>> /\ req[r].llmCalls = 0
    /\ req[r].url \in DOMAIN cache
    /\ req[r].body = <<cache[req[r].url].data>>
    /\ req[r].now = TICK_MS /\ cache[req[r].url].timestamp = 0
    /\ req[w].pc = "done" /\ req[w].now = 0 /\ req[w].llmCalls = 1
    /\ req[w].url = req[r].url /\ req[w].body = req[r].body

\* the request in slot r has ended without a body computed for its URL:
\* status 500, status 405, or the fallback for a missing url
EndedWithoutResult(q) ==
  /\ q.pc = "done"
  /\ \/ q.status \in {500, 405}
     \/ q.status = 200 /\ (~q.input.isString \/ q.input.s = <<>>)

\* the bodies the handler can compute for the URL key
BodiesFor(key) ==
  { fallbackResponse(ParseUrl(key).hostname) }
    \cup { BuildResponse(o.parsed[1], ParseUrl(key).hostname) :
             o \in {x \in LlmOutcomes : x.kind = "object"} }

\* C16: a request that ends with status 500, status 405 or the missing-url
\* fallback leaves the cache unchanged (the cache changes only in the step
\* that answers 200 with the body it stores), and at all times every cache
\* entry holds a body that was returned with status 200 for its key, the
\* canned fallback or a normalized response.
C16_OnlyReturnedBodiesCached ==
  /\ [][\A r \in Reqs :
          req'[r] # req[r] =>
            /\ EndedWithoutResult(req'[r]) => cache' = cache
            /\ cache' # cache =>
                 /\ req'[r].pc = "done" /\ req'[r].status = 200
                 /\ req'[r].url \in DOMAIN cache'
                 /\ req'[r].body = <<cache'[req'[r].url].data>>
       ]_vars
  /\ [](\A k \in DOMAIN cache :
          /\ cache[k].data \in BodiesFor(k)
          /\ \E r \in Reqs :
               /\ req[r].pc = "done" /\ req[r].status = 200
               /\ req[r].url = k /\ req[r].body = <<cache[k].data>>)

\* one request stored its response; the other, for the same URL, then missed
\* the expired entry, failed at the language model with 500, and the entry is
\* still the first request's
C16_Witness ==
  \E r, w \in Reqs :
    /\ req[w].pc = "done" /\ req[w].status = 200 /\ req[w].llmCalls = 1
    /\ req[w].now = 0
    /\ req[r].pc = "done" /\ req[r].status = 500 /\ req[r].llmCalls = 1
    /\ req[r].now = 2 * TICK_MS
    /\ req[r].url = req[w].url
    /\ cache[req[w].url] = [timestamp |-> 0, data |-> req[w].body[1]]

\* the request in slot w has passed its cache check for key and has not yet
\* reached cache.set
InFlight(w, key) ==
  /\ req[w].route = "url" /\ req[w].url = key
  /\ req[w].pc \in ResolverPcs \cup {"returned", "llm"}

\* C17: the cache gives no single-flight guarantee. A request that performs
\* its cache check while another request for the same normalized URL is in
\* flight, and finds no fresh entry, misses and runs extractPolicyText itself;
\* a request that comes back from the language model is answered with the
\* response built from its own answer and unconditionally stores it under the
\* time of its own cache check, replacing whatever entry is there, even a
\* newer one.
C17_NoSingleFlight ==
  [][\A r \in Reqs :
       /\ \A w \in Reqs \ {r} :
            /\ ChecksCache(r)
            /\ InFlight(w, NormalizeUrl(req'[r].input.s))
            /\ ~CacheFresh(cache, NormalizeUrl(req'[r].input.s), clock)
            => /\ req'[r].pc \in {"fetchTarget", "returned"}
               /\ req'[w] = req[w]
       /\ \A o \in LlmOutcomes :
            /\ req[r].pc = "llm" /\ o.kind = "object"
            /\ req'[r].pc = "done" /\ req'[r].status = 200
            /\ req'[r].body = <<BuildResponse(o.parsed[1], req[r].domain)>>
            => cache' = [k \in DOMAIN cache \cup {req[r].url} |->
                           IF k = req[r].url
                           THEN [timestamp |-> req[r].now,
                                 data |-> BuildResponse(o.parsed[1], req[r].domain)]
                           ELSE cache[k]]
       /\ req[r].pc = "llm" /\ req'[r].pc = "done" /\ req'[r].status = 200 =>
            \E o \in LlmOutcomes :
              /\ o.kind = "object"
              /\ req'[r].body = <<BuildResponse(o.parsed[1], req[r].domain)>>
    ]_vars

\* two requests for one URL both missed, both fetched and both called the
\* language model; they were answered differently, and the cache holds the
\* entry of the one whose cache check came first, so it wrote last
C17_Witness ==
  \E r, w \in Reqs :
    /\ req[r].url = req[w].url
    /\ req[r].pc = "done" /\ req[r].status = 200 /\ req[r].llmCalls = 1
    /\ req[w].pc = "done" /\ req[w].status = 200 /\ req[w].llmCalls = 1
    /\ Len(req[r].fetched) >= 1 /\ Len(req[w].fetched) >= 1
    /\ req[r].body # req[w].body
    /\ req[r].now < req[w].now
    /\ req[w].now - req[r].now < CACHE_TTL_MS
    /\ cache[req[r].url] = [timestamp |-> req[r].now, data |-> req[r].body[1]]

====
